---- MODULE Spec2Model ----
(***************************************************************************)
(* Model of src/models/distill_dual_ranker.py: the distillation training   *)
(* loop (train), the evaluator (evaluate), the forward pass of the         *)
(* dual-encoder scorer and the loss computation.                           *)
(*                                                                         *)
(* Tensors are matrices and vectors of extended numbers: a finite integer, *)
(* +inf, -inf, NaN, or the finite value of a log-probability (which the    *)
(* model does not compute).  Losses are kept in fixed point, in units of   *)
(* 1/LossUnit, so that the mean over a batch and the alpha weighting are   *)
(* exact.  The running sum total_loss only feeds the printed average and   *)
(* is not part of the model; the printed lines are counted.                *)
(***************************************************************************)
EXTENDS Integers, Sequences, FiniteSets, TLC

\* Bounds of the model.
MaxEpochs == 2
MaxBatch == 2
MaxTrain == 3
MaxVal == 2
MaxScore == 1

\* margin of torch.nn.MarginRankingLoss(margin=1.0)
Margin == 1
\* alpha is a multiple of 1/AlphaDen (the default alpha is 0.5)
AlphaDen == 2

RECURSIVE Fact(_)
Fact(n) == IF n <= 1 THEN 1 ELSE n * Fact(n - 1)

\* One unit of loss; divisible by every batch size and by AlphaDen.
LossUnit == AlphaDen * Fact(MaxBatch)

----------------------------------------------------------------------------
\* Extended (IEEE-like) numbers.

Fin(n) == [k |-> "fin", v |-> n]
NegInf == [k |-> "neginf", v |-> 0]
PosInf == [k |-> "posinf", v |-> 0]
NaN == [k |-> "nan", v |-> 0]
\* a finite log-probability (value not computed)
LogP == [k |-> "logp", v |-> 0]

IsFinite(x) == x.k \in {"fin", "logp"}

ExtNeg(a) ==
  CASE a.k = "fin" -> Fin(0 - a.v)
    [] a.k = "neginf" -> PosInf
    [] a.k = "posinf" -> NegInf
    [] OTHER -> NaN

ExtAdd(a, b) ==
  CASE a.k = "nan" \/ b.k = "nan" -> NaN
    [] a.k = "fin" /\ b.k = "fin" -> Fin(a.v + b.v)
    [] a.k = "fin" -> b
    [] b.k = "fin" -> a
    [] a.k = b.k -> a
    [] OTHER -> NaN

ExtSub(a, b) == ExtAdd(a, ExtNeg(b))

\* k * a for an integer k: 0 * inf is NaN
ExtScale(k, a) ==
  CASE a.k = "nan" -> NaN
    [] a.k = "fin" -> Fin(k * a.v)
    [] k = 0 -> NaN
    [] k > 0 -> a
    [] OTHER -> ExtNeg(a)

\* a / n for an integer n > 0 (exact on the fixed-point values used)
ExtDiv(a, n) == IF a.k = "fin" THEN Fin(a.v \div n) ELSE a

\* clamp_min(0): NaN stays NaN
ExtClampMin0(a) ==
  CASE a.k = "fin" -> IF a.v > 0 THEN a ELSE Fin(0)
    [] a.k = "neginf" -> Fin(0)
    [] OTHER -> a

ExtLeq(a, b) ==
  \/ a.k = "neginf"
  \/ b.k = "posinf"
  \/ a.k = "fin" /\ b.k = "fin" /\ a.v <= b.v

\* max of a non-empty sequence; NaN propagates
ExtMaxSeq(s) ==
  LET vals == {s[j] : j \in DOMAIN s}
  IN IF NaN \in vals THEN NaN
     ELSE CHOOSE x \in vals : \A y \in vals : ExtLeq(y, x)

RECURSIVE ExtSum(_, _)
ExtSum(s, n) == IF n = 0 THEN Fin(0) ELSE ExtAdd(ExtSum(s, n - 1), s[n])

Min(a, b) == IF a < b THEN a ELSE b

----------------------------------------------------------------------------
\* Tensor operations.

Unset == <<>>

\* Tensor.diag(): a copy of the diagonal
Diag(M) == [i \in DOMAIN M |-> M[i][i]]

\* Tensor.fill_diagonal_(val): the matrix after the in-place write
FillDiagonal(M, val) ==
  [i \in DOMAIN M |-> [j \in DOMAIN M |-> IF i = j THEN val ELSE M[i][j]]]

\* Tensor.max(dim=1)[0]
RowMax(M) == [i \in DOMAIN M |-> ExtMaxSeq(M[i])]

\* lines 153-154 (198-199 in evaluate): positives, the matrix after the
\* in-place masking, and the hardest negatives
ExtractionView(M) ==
  LET masked == FillDiagonal(M, NegInf)
  IN [pos |-> Diag(masked), scores |-> masked, neg |-> RowMax(masked)]

Extraction(M) ==
  LET pos == Diag(M)
      masked == FillDiagonal(M, NegInf)
  IN [pos |-> pos, scores |-> masked, neg |-> RowMax(masked)]

\* torch.ones_like
OnesLike(x) == [i \in DOMAIN x |-> 1]

\* MarginRankingLoss(margin): mean_i max(0, -y_i * (x1_i - x2_i) + margin)
MarginRankingLoss(x1, x2, y) ==
  LET n == Len(x1)
      term == [i \in 1..n |->
                 ExtClampMin0(ExtAdd(ExtScale(0 - y[i], ExtSub(x1[i], x2[i])),
                                     Fin(Margin)))]
  IN ExtDiv(ExtScale(LossUnit, ExtSum(term, n)), n)

\* F.log_softmax(M / temperature, dim=1) with temperature > 0, entry by entry:
\* x - logsumexp(row)
LogSoftmax(M) ==
  [i \in DOMAIN M |->
     LET row == {M[i][j] : j \in DOMAIN M}
     IN [j \in DOMAIN M |->
           IF NaN \in row \/ row = {NegInf} THEN NaN
           ELSE IF PosInf \in row
                THEN (IF M[i][j] = PosInf THEN NaN ELSE NegInf)
                ELSE IF M[i][j] = NegInf THEN NegInf ELSE LogP]]

\* Values KLDivLoss(reduction='batchmean') can return: finite ones and the
\* non-finite ones (the target passed at line 161 holds log-probabilities and
\* the input may hold -inf, so the value depends on the installed kernel).
DistillOutcomes == {Fin(0), Fin(LossUnit), PosInf, NaN}

\* line 163: alpha * ranking_loss + (1 - alpha) * distillation_loss,
\* alpha = a / AlphaDen
CombinedLossSwapped(a, r, d) ==
  ExtDiv(ExtAdd(ExtScale(AlphaDen - a, r), ExtScale(a, d)), AlphaDen)

CombinedLoss(a, r, d) ==
  ExtDiv(ExtAdd(ExtScale(a, r), ExtScale(AlphaDen - a, d)), AlphaDen)

----------------------------------------------------------------------------
\* Inputs.

Scores == {Fin(s) : s \in 0..MaxScore}

\* every B x B score matrix
AllMatrices(B) == [1..B -> [1..B -> Scores]]

\* score matrices with one value on the diagonal and one off it
UniformMatrices(B) ==
  {[i \in 1..B |-> [j \in 1..B |-> IF i = j THEN d ELSE o]] :
     d \in Scores, o \in Scores}

\* teacher score matrices: one value on the diagonal, 0 off it
TeacherMatrices(B) ==
  {[i \in 1..B |-> [j \in 1..B |-> IF i = j THEN d ELSE Fin(0)]] : d \in Scores}

Families == {"bert", "distilbert"}

\* fields the tokenizer of a model family returns
TokenizerFields(family) ==
  IF family = "bert"
  THEN {"input_ids", "token_type_ids", "attention_mask"}
  ELSE {"input_ids", "attention_mask"}

\* lines 91-93: the mapping passed to forward, after the call
ForwardInputs(family, inputs) ==
  IF family = "distilbert" THEN inputs \ {"token_type_ids"} ELSE inputs

\* len(DataLoader(dataset, batch_size)), drop_last=False
LoaderLenFloor(n, bs) == n \div bs

LoaderLen(n, bs) == (n + bs - 1) \div bs

\* AdamW(model.parameters(), ...): the models whose parameters it updates
OptimizerParamsBoth == {"student", "teacher"}

OptimizerParams == {"student"}

\* for epoch in range(epochs): is there another epoch after epoch e
MoreEpochsOffByOne(e, n) == e + 1 <= n

MoreEpochs(e, n) == e + 1 < n

\* lines 140-141: model.train(); teacher_model.eval()
TrainModesTeacherOnly(t) == [t EXCEPT !.teacher = FALSE]

TrainModes(t) == [t EXCEPT !.student = TRUE, !.teacher = FALSE]

\* line 188: model.eval()
EvalModes(t) == [t EXCEPT !.student = FALSE]

\* get_linear_schedule_with_warmup, num_warmup_steps=0: the numerator of the
\* learning-rate factor max(0, (total - step) / total)
LrFactor(step, total) == IF total - step > 0 THEN total - step ELSE 0

\* the arguments of train; main (lines 244-264) passes non-empty training and
\* validation sets
Configs ==
  [epochs : 1..MaxEpochs, batch_size : 1..MaxBatch, alpha : 0..AlphaDen,
   train_len : 1..MaxTrain, val_len : 1..MaxVal,
   teacher_family : Families, student_family : Families]

----------------------------------------------------------------------------
VARIABLES
  args,               \* arguments of train
  pc,                 \* position in train / evaluate
  epoch,              \* loop variable of line 139 (-1 before the loop)
  batch_idx,          \* batches taken from train_loader in this epoch
  val_idx,            \* batches taken from val_loader in this evaluation
  global_step,        \* training batch steps begun in this run
  cur_batch,          \* size of the current batch (0: none)
  params,             \* per model: number of updates applied to its parameters
  training,           \* per model: Module.training
  optimizer,          \* parameters it owns, steps it has taken
  scheduler,          \* last_epoch (step count) and total_steps
  grad,               \* gradients of the student: none, zeroed, computed
  query_inputs,       \* fields of the batch's query mapping
  doc_inputs,         \* fields of the batch's document mapping
  teacher_scores,
  student_scores,     \* student_scores in train, scores in evaluate
  fwd_scores,         \* the matrix as the student forward pass returned it
  positive_scores,
  negative_scores,
  ranking_loss,
  distillation_loss,
  loss,
  reports,            \* average-training-loss lines printed
  evals,              \* calls of evaluate
  val_reports         \* validation-loss lines printed

vars ==
  <<args, pc, epoch, batch_idx, val_idx, global_step, cur_batch, params,
    training, optimizer, scheduler, grad, query_inputs, doc_inputs,
    teacher_scores, student_scores, fwd_scores, positive_scores,
    negative_scores, ranking_loss, distillation_loss, loss, reports, evals,
    val_reports>>

loopVars == <<epoch, batch_idx, val_idx, global_step, cur_batch>>
modelVars == <<params, training, optimizer, scheduler, grad>>
inputVars == <<query_inputs, doc_inputs>>
scoreVars ==
  <<teacher_scores, student_scores, fwd_scores, positive_scores,
    negative_scores>>
lossVars == <<ranking_loss, distillation_loss, loss>>
countVars == <<reports, evals, val_reports>>

NoBatchLocals ==
  /\ cur_batch = 0
  /\ query_inputs = {}
  /\ doc_inputs = {}
  /\ teacher_scores = Unset
  /\ student_scores = Unset
  /\ fwd_scores = Unset
  /\ positive_scores = Unset
  /\ negative_scores = Unset
  /\ ranking_loss = NaN
  /\ distillation_loss = NaN
  /\ loss = NaN

\* the locals of a loop body are rebound before they are read again
ClearBatchLocals ==
  /\ cur_batch' = 0
  /\ query_inputs' = {}
  /\ doc_inputs' = {}
  /\ teacher_scores' = Unset
  /\ student_scores' = Unset
  /\ fwd_scores' = Unset
  /\ positive_scores' = Unset
  /\ negative_scores' = Unset
  /\ ranking_loss' = NaN
  /\ distillation_loss' = NaN
  /\ loss' = NaN

\* train is entered with two freshly constructed models
Init ==
  /\ args \in Configs
  /\ pc = "init"
  /\ epoch = -1
  /\ batch_idx = 0
  /\ val_idx = 0
  /\ global_step = 0
  /\ params = [student |-> 0, teacher |-> 0]
  /\ training = [student |-> TRUE, teacher |-> TRUE]
  /\ optimizer = [params |-> {}, steps |-> 0]
  /\ scheduler = [last_epoch |-> 0, total_steps |-> 0]
  /\ grad = "none"
  /\ NoBatchLocals
  /\ reports = 0
  /\ evals = 0
  /\ val_reports = 0

----------------------------------------------------------------------------
\* train, lines 125-176.

\* size of batch number idx (from 0) of a loader over n examples
BatchSize(idx, n, bs) == Min(bs, n - idx * bs)

\* lines 125-137: loaders, optimizer, schedule
Initialize ==
  /\ pc = "init"
  /\ optimizer' = [params |-> OptimizerParams, steps |-> 0]
  /\ scheduler' =
       [last_epoch |-> 0,
        total_steps |-> LoaderLen(args.train_len, args.batch_size) * args.epochs]
  /\ pc' = "epoch_loop"
  /\ UNCHANGED <<args, loopVars, params, training, grad, inputVars, scoreVars,
                 lossVars, countVars>>

\* lines 139-143: the next epoch begins
EpochStart ==
  /\ pc = "epoch_loop"
  /\ MoreEpochs(epoch, args.epochs)
  /\ epoch' = epoch + 1
  /\ training' = TrainModes(training)
  /\ batch_idx' = 0
  /\ pc' = "fetch"
  /\ UNCHANGED <<args, val_idx, global_step, cur_batch, params, optimizer,
                 scheduler, grad, inputVars, scoreVars, lossVars, countVars>>

\* line 139: range(epochs) is exhausted, train returns
TrainDone ==
  /\ pc = "epoch_loop"
  /\ ~MoreEpochs(epoch, args.epochs)
  /\ pc' = "Done"
  /\ UNCHANGED <<args, loopVars, modelVars, inputVars, scoreVars, lossVars,
                 countVars>>

\* lines 144-147: the loader yields the next batch
FetchBatch ==
  /\ pc = "fetch"
  /\ batch_idx * args.batch_size < args.train_len
  /\ cur_batch' = BatchSize(batch_idx, args.train_len, args.batch_size)
  /\ batch_idx' = batch_idx + 1
  /\ global_step' = global_step + 1
  /\ query_inputs' = TokenizerFields(args.teacher_family)
  /\ doc_inputs' = TokenizerFields(args.teacher_family)
  /\ pc' = "teacher_fwd"
  /\ UNCHANGED <<args, epoch, val_idx, modelVars, scoreVars, lossVars,
                 countVars>>

\* lines 149-150
TeacherForward ==
  /\ pc = "teacher_fwd"
  /\ \E m \in TeacherMatrices(cur_batch) : teacher_scores' = m
  /\ query_inputs' = ForwardInputs(args.teacher_family, query_inputs)
  /\ doc_inputs' = ForwardInputs(args.teacher_family, doc_inputs)
  /\ pc' = "student_fwd"
  /\ UNCHANGED <<args, loopVars, modelVars, student_scores, fwd_scores,
                 positive_scores, negative_scores, lossVars, countVars>>

\* line 152
StudentForward ==
  /\ pc = "student_fwd"
  /\ \E m \in UniformMatrices(cur_batch) :
       /\ student_scores' = m
       /\ fwd_scores' = m
  /\ query_inputs' = ForwardInputs(args.student_family, query_inputs)
  /\ doc_inputs' = ForwardInputs(args.student_family, doc_inputs)
  /\ pc' = "extract"
  /\ UNCHANGED <<args, loopVars, modelVars, teacher_scores, positive_scores,
                 negative_scores, lossVars, countVars>>

\* lines 153-154
ExtractPosNeg ==
  /\ pc = "extract"
  /\ LET x == Extraction(student_scores)
     IN /\ positive_scores' = x.pos
        /\ student_scores' = x.scores
        /\ negative_scores' = x.neg
  /\ pc' = "rank"
  /\ UNCHANGED <<args, loopVars, modelVars, inputVars, teacher_scores,
                 fwd_scores, lossVars, countVars>>

\* lines 156-157
ComputeRankingLoss ==
  /\ pc = "rank"
  /\ ranking_loss' =
       MarginRankingLoss(positive_scores, negative_scores,
                         OnesLike(positive_scores))
  /\ pc' = "softmax"
  /\ UNCHANGED <<args, loopVars, modelVars, inputVars, scoreVars,
                 distillation_loss, loss, countVars>>

\* lines 159-160
LogSoftmaxStep ==
  /\ pc = "softmax"
  /\ teacher_scores' = LogSoftmax(teacher_scores)
  /\ student_scores' = LogSoftmax(student_scores)
  /\ pc' = "kl"
  /\ UNCHANGED <<args, loopVars, modelVars, inputVars, fwd_scores,
                 positive_scores, negative_scores, lossVars, countVars>>

\* line 161
Distill ==
  /\ pc = "kl"
  /\ \E d \in DistillOutcomes : distillation_loss' = d
  /\ pc' = "combine"
  /\ UNCHANGED <<args, loopVars, modelVars, inputVars, scoreVars, ranking_loss,
                 loss, countVars>>

\* line 163
Combine ==
  /\ pc = "combine"
  /\ loss' = CombinedLoss(args.alpha, ranking_loss, distillation_loss)
  /\ pc' = "zero_grad"
  /\ UNCHANGED <<args, loopVars, modelVars, inputVars, scoreVars, ranking_loss,
                 distillation_loss, countVars>>

\* line 165
ZeroGrad ==
  /\ pc = "zero_grad"
  /\ grad' = "zeroed"
  /\ pc' = "backward"
  /\ UNCHANGED <<args, loopVars, params, training, optimizer, scheduler,
                 inputVars, scoreVars, lossVars, countVars>>

\* line 166
Backward ==
  /\ pc = "backward"
  /\ grad' = "computed"
  /\ pc' = "opt_step"
  /\ UNCHANGED <<args, loopVars, params, training, optimizer, scheduler,
                 inputVars, scoreVars, lossVars, countVars>>

\* line 167: every parameter the optimizer owns is rewritten
OptimizerStep ==
  /\ pc = "opt_step"
  /\ params' =
       [m \in DOMAIN params |->
          IF m \in optimizer.params THEN params[m] + 1 ELSE params[m]]
  /\ optimizer' = [optimizer EXCEPT !.steps = @ + 1]
  /\ pc' = "sched_step"
  /\ UNCHANGED <<args, loopVars, training, scheduler, grad, inputVars,
                 scoreVars, lossVars, countVars>>

\* line 168
SchedulerStep ==
  /\ pc = "sched_step"
  /\ scheduler' = [scheduler EXCEPT !.last_epoch = @ + 1]
  /\ pc' = "accumulate"
  /\ UNCHANGED <<args, loopVars, params, training, optimizer, grad, inputVars,
                 scoreVars, lossVars, countVars>>

\* lines 170-171: the loss is reported and the loop body ends
Accumulate ==
  /\ pc = "accumulate"
  /\ ClearBatchLocals
  /\ pc' = "fetch"
  /\ UNCHANGED <<args, epoch, batch_idx, val_idx, global_step, modelVars,
                 countVars>>

\* lines 173-174: the loader is exhausted, the average loss is printed
Report ==
  /\ pc = "fetch"
  /\ batch_idx * args.batch_size >= args.train_len
  /\ reports' = reports + 1
  /\ pc' = "eval_start"
  /\ UNCHANGED <<args, loopVars, modelVars, inputVars, scoreVars, lossVars,
                 evals, val_reports>>

----------------------------------------------------------------------------
\* evaluate, lines 178-206.

\* lines 176, 188-191
EvalStart ==
  /\ pc = "eval_start"
  /\ evals' = evals + 1
  /\ training' = EvalModes(training)
  /\ val_idx' = 0
  /\ pc' = "eval_fetch"
  /\ UNCHANGED <<args, epoch, batch_idx, global_step, cur_batch, params,
                 optimizer, scheduler, grad, inputVars, scoreVars, lossVars,
                 reports, val_reports>>

\* lines 192-195
EvalFetch ==
  /\ pc = "eval_fetch"
  /\ val_idx * args.batch_size < args.val_len
  /\ cur_batch' = BatchSize(val_idx, args.val_len, args.batch_size)
  /\ val_idx' = val_idx + 1
  /\ query_inputs' = TokenizerFields(args.teacher_family)
  /\ doc_inputs' = TokenizerFields(args.teacher_family)
  /\ pc' = "eval_fwd"
  /\ UNCHANGED <<args, epoch, batch_idx, global_step, modelVars, scoreVars,
                 lossVars, countVars>>

\* line 197
EvalForward ==
  /\ pc = "eval_fwd"
  /\ \E m \in UniformMatrices(cur_batch) :
       /\ student_scores' = m
       /\ fwd_scores' = m
  /\ query_inputs' = ForwardInputs(args.student_family, query_inputs)
  /\ doc_inputs' = ForwardInputs(args.student_family, doc_inputs)
  /\ pc' = "eval_extract"
  /\ UNCHANGED <<args, loopVars, modelVars, teacher_scores, positive_scores,
                 negative_scores, lossVars, countVars>>

\* lines 198-199
EvalExtract ==
  /\ pc = "eval_extract"
  /\ LET x == Extraction(student_scores)
     IN /\ positive_scores' = x.pos
        /\ student_scores' = x.scores
        /\ negative_scores' = x.neg
  /\ pc' = "eval_rank"
  /\ UNCHANGED <<args, loopVars, modelVars, inputVars, teacher_scores,
                 fwd_scores, lossVars, countVars>>

\* lines 201-202
EvalRank ==
  /\ pc = "eval_rank"
  /\ loss' =
       MarginRankingLoss(positive_scores, negative_scores,
                         OnesLike(positive_scores))
  /\ pc' = "eval_acc"
  /\ UNCHANGED <<args, loopVars, modelVars, inputVars, scoreVars, ranking_loss,
                 distillation_loss, countVars>>

\* line 203: the loop body ends
EvalAccumulate ==
  /\ pc = "eval_acc"
  /\ ClearBatchLocals
  /\ pc' = "eval_fetch"
  /\ UNCHANGED <<args, epoch, batch_idx, val_idx, global_step, modelVars,
                 countVars>>

\* lines 205-206: the validation loss is printed, evaluate returns
EvalReport ==
  /\ pc = "eval_fetch"
  /\ val_idx * args.batch_size >= args.val_len
  /\ val_reports' = val_reports + 1
  /\ pc' = "epoch_loop"
  /\ UNCHANGED <<args, loopVars, modelVars, inputVars, scoreVars, lossVars,
                 reports, evals>>

Next ==
  \/ Initialize
  \/ EpochStart
  \/ TrainDone
  \/ FetchBatch
  \/ TeacherForward
  \/ StudentForward
  \/ ExtractPosNeg
  \/ ComputeRankingLoss
  \/ LogSoftmaxStep
  \/ Distill
  \/ Combine
  \/ ZeroGrad
  \/ Backward
  \/ OptimizerStep
  \/ SchedulerStep
  \/ Accumulate
  \/ Report
  \/ EvalStart
  \/ EvalFetch
  \/ EvalForward
  \/ EvalExtract
  \/ EvalRank
  \/ EvalAccumulate
  \/ EvalReport

Spec == Init /\ [][Next]_vars

----------------------------------------------------------------------------
\* The loss computation on every score matrix: the program right after the
\* student forward pass of the first batch (B examples) of the first epoch,
\* in train and in the evaluation that follows, with any B x B matrix as the
\* result of that forward pass.

LossArgs(B) ==
  [epochs |-> 1, batch_size |-> B, alpha |-> AlphaDen, train_len |-> B,
   val_len |-> B, teacher_family |-> "bert", student_family |-> "bert"]

LossInit ==
  \E B \in 1..MaxBatch :
    /\ args = LossArgs(B)
    /\ epoch = 0
    /\ batch_idx = 1
    /\ global_step = 1
    /\ cur_batch = B
    /\ query_inputs = TokenizerFields("bert")
    /\ doc_inputs = TokenizerFields("bert")
    /\ student_scores \in AllMatrices(B)
    /\ fwd_scores = student_scores
    /\ positive_scores = Unset
    /\ negative_scores = Unset
    /\ ranking_loss = NaN
    /\ distillation_loss = NaN
    /\ loss = NaN
    /\ val_reports = 0
    /\ \/ /\ pc = "extract"
          /\ val_idx = 0
          /\ params = [student |-> 0, teacher |-> 0]
          /\ training = [student |-> TRUE, teacher |-> FALSE]
          /\ optimizer = [params |-> OptimizerParams, steps |-> 0]
          /\ scheduler = [last_epoch |-> 0, total_steps |-> 1]
          /\ grad = "none"
          /\ teacher_scores \in TeacherMatrices(B)
          /\ reports = 0
          /\ evals = 0
       \/ /\ pc = "eval_extract"
          /\ val_idx = 1
          /\ params = [student |-> 1, teacher |-> 0]
          /\ training = [student |-> FALSE, teacher |-> FALSE]
          /\ optimizer = [params |-> OptimizerParams, steps |-> 1]
          /\ scheduler = [last_epoch |-> 1, total_steps |-> 1]
          /\ grad = "computed"
          /\ teacher_scores = Unset
          /\ reports = 1
          /\ evals = 1

LossNext ==
  \/ ExtractPosNeg
  \/ ComputeRankingLoss
  \/ EvalExtract
  \/ EvalRank

LossSpec == LossInit /\ [][LossNext]_vars

----------------------------------------------------------------------------
\* Properties.

TrainBatchPcs ==
  {"teacher_fwd", "student_fwd", "extract", "rank", "softmax", "kl", "combine",
   "zero_grad", "backward", "opt_step", "sched_step", "accumulate"}

EvalBatchPcs == {"eval_fwd", "eval_extract", "eval_rank", "eval_acc"}

\* the combined loss of the current training batch has been computed
LossComputedPcs ==
  {"zero_grad", "backward", "opt_step", "sched_step", "accumulate"}

\* C1: in every training batch step the matrix handed to the distillation
\* log-softmax is the matrix the student forward pass returned, without the
\* -inf diagonal written for negative extraction.
C1_DistillationSeesUnmaskedScores ==
  pc = "softmax" => student_scores = fwd_scores

\* C2: the optimizer step of a training batch whose combined loss is not
\* finite leaves the student parameters as they were.
C2_NonFiniteLossSkipsUpdate ==
  [][(pc = "opt_step" /\ ~IsFinite(loss)) => params'.student = params.student]_vars

\* C3: a batch of size 1 is skipped: it is never handed to a forward pass,
\* in training or in evaluation, and causes no parameter update.
C3_DegenerateBatchSkipped ==
  cur_batch = 1 => pc \notin {"student_fwd", "extract", "opt_step", "sched_step",
                              "eval_extract", "eval_rank"}

\* C4: teacher parameters never change, and student parameters change only
\* in the optimizer step of a training batch step.
C4_ParamsChangeOnlyInOptimizerStep ==
  [][/\ params'.teacher = params.teacher
     /\ (params'.student # params.student => pc = "opt_step")]_vars

C4_Witness ==
  /\ pc = "Done"
  /\ params.student >= 2
  /\ params.teacher = 0
  /\ evals >= 2

\* C5: the scheduler is stepped once per training batch step, after that
\* batch's optimizer step, which follows gradient clearing and backpropagation;
\* when train is done the scheduler has taken epochs * batches-per-epoch steps,
\* the total the schedule was built with, and the learning rate is 0.
C5_SchedulerStepsOncePerBatch ==
  /\ scheduler.last_epoch <= optimizer.steps
  /\ pc \in TrainBatchPcs \ {"accumulate"} => scheduler.last_epoch = global_step - 1
  /\ pc \notin TrainBatchPcs \ {"accumulate"} => scheduler.last_epoch = global_step
  /\ pc = "backward" => grad = "zeroed"
  /\ pc = "opt_step" => grad = "computed" /\ optimizer.steps = global_step - 1
  /\ pc = "sched_step" => optimizer.steps = global_step
  /\ pc = "Done" =>
       /\ scheduler.last_epoch = args.epochs * batch_idx
       /\ scheduler.last_epoch = scheduler.total_steps
       /\ LrFactor(scheduler.last_epoch, scheduler.total_steps) = 0

C5_Witness ==
  /\ pc = "Done"
  /\ args.epochs = 2
  /\ batch_idx = 2
  /\ scheduler.last_epoch = 4

\* C6: each epoch prints one average-loss line and calls evaluate once, after
\* all training batches of the epoch and before the first batch of the next
\* one; train is done after exactly args.epochs epochs.
C6_OneReportAndOneEvalPerEpoch ==
  /\ pc \in TrainBatchPcs \cup {"fetch"} =>
       reports = epoch /\ evals = epoch /\ val_reports = epoch
  /\ pc = "eval_start" =>
       /\ reports = epoch + 1
       /\ evals = epoch
       /\ cur_batch = 0
       /\ batch_idx * args.batch_size >= args.train_len
  /\ pc \in EvalBatchPcs \cup {"eval_fetch"} =>
       reports = epoch + 1 /\ evals = epoch + 1 /\ val_reports = epoch
  /\ pc = "epoch_loop" =>
       reports = epoch + 1 /\ evals = epoch + 1 /\ val_reports = epoch + 1
  /\ pc = "Done" =>
       epoch + 1 = args.epochs /\ reports = args.epochs /\ evals = args.epochs

C6_Witness ==
  /\ pc = "Done"
  /\ args.epochs = 2
  /\ reports = 2
  /\ evals = 2
  /\ batch_idx = 2

\* mean_i max(0, Margin - (M[i,i] - max_{j # i} M[i,j])) over the entries of
\* M, for a B x B matrix of finite scores with B >= 2
HingeOf(M, i) ==
  LET off == {M[i][j].v : j \in DOMAIN M \ {i}}
      neg == CHOOSE x \in off : \A y \in off : y <= x
      h == Margin - (M[i][i].v - neg)
  IN IF h > 0 THEN h ELSE 0

RECURSIVE HingeSum(_, _)
HingeSum(M, n) == IF n = 0 THEN 0 ELSE HingeSum(M, n - 1) + HingeOf(M, n)

MeanHinge(M) == Fin((HingeSum(M, Len(M)) * LossUnit) \div Len(M))

C9_ForwardKeepsInputs ==
  [][(pc \in {"teacher_fwd", "student_fwd", "eval_fwd"}) => (inputVars' = inputVars)]_vars

\* C10: in every training batch step of every epoch the student is in
\* training mode and the teacher in evaluation mode; in every evaluation batch
\* the student is in evaluation mode.
C10_ModesPerPhase ==
  /\ pc \in TrainBatchPcs => training.student /\ ~training.teacher
  /\ pc \in EvalBatchPcs => ~training.student

C10_Witness ==
  /\ pc = "student_fwd"
  /\ epoch = 1
  /\ evals = 1
  /\ training.student
  /\ ~training.teacher

====
